---- MODULE Spec2Model ----
(***************************************************************************)
(* lockfree_snowflake: the 64-bit identifier codec (snow_flake_id.rs) and  *)
(* the lock-free generator (snowflake_id_generator.rs).                    *)
(*                                                                         *)
(* A u64 / i64 is a word of four 16-bit limbs, so that shifts, masks,      *)
(* casts and comparisons keep their 64-bit width.  A                       *)
(* u16 is an integer in 0..65535.  Instants are whole milliseconds (i64,   *)
(* two's complement) on the time line of chrono's DateTime<Utc>.           *)
(***************************************************************************)
EXTENDS Integers, Sequences, FiniteSets, TLC

VARIABLES
    \* ---- SnowFlakeIdGenerator and its callers
    gen,          \* "Uninit" | "Ok" | "Err": the result of SnowFlakeIdGenerator::new
    arg_machine,  \* the machine_id argument new was called with (u16)
    the_epoch,    \* field the_epoch (instant)
    machine_id,   \* field machine_id (u16)
    recent,       \* field recent: AtomicU64
    clock,        \* the instant the Timestamp capability returns when asked now
    ticks,        \* how many times the time source has advanced
    pc,           \* per caller: position inside generate()
    pivot,        \* per caller: local pivot (raw value loaded from recent)
    instant,      \* per caller: the instant the time source returned to its call
    now,          \* per caller: local now
    candidate,    \* per caller: local candidate (raw value)
    ret,          \* per caller: how its last generate() call ended
    casDone,      \* per caller: compare-and-swaps performed by its current/last call
    wrote,        \* per caller: its current/last call has stored into recent
    stale,        \* per caller: another caller's CAS changed recent since this call's load
    ncalls,       \* generate() calls started so far
    nmiss,        \* generate() calls that ended without an identifier (None or panic)
    nspurious,    \* spurious failures of compare_exchange_weak so far
    issued,       \* raw values returned as Some, in the order of their CAS
    issuedFrom,   \* for each of them, the value its call had loaded (and replaced)
    \* ---- the codec applied to drawn arguments
    c_args,       \* <<timestamp (u64), machine_id (u16), inclement (u16)>>
    c_res,        \* result of SnowflakeId::new on c_args, with the decoded fields
    \* ---- two identifiers built side by side
    p_args,       \* <<arguments of the first, arguments of the second>>
    p_res         \* the two results of SnowflakeId::new and their integer forms

genVars == <<gen, arg_machine, the_epoch, machine_id, recent, clock, ticks, pc, pivot,
             instant, now, candidate, ret, casDone, wrote, stale, ncalls, nmiss,
             nspurious, issued, issuedFrom>>
codecVars == <<c_args, c_res, p_args, p_res>>
vars == <<genVars, codecVars>>

-----------------------------------------------------------------------------
(* 64-bit words: <<l3, l2, l1, l0>>, four 16-bit limbs, most significant    *)
(* first, the value being l3*2^48 + l2*2^32 + l1*2^16 + l0                  *)

Limbs == 0..3

\* a hexadecimal literal 0xAAAA_BBBB_CCCC_DDDD of the source
Word(a, b, c, d) == <<a, b, c, d>>

\* limb k (weight 2^(16k)) of x; limbs beyond the word are 0
Limb(x, k) == IF k \in Limbs THEN x[4 - k] ELSE 0

\* bit i (weight 2^i) of x
Bit(x, i) == (Limb(x, i \div 16) \div (2 ^ (i % 16))) % 2

Zero64 == Word(0, 0, 0, 0)

AllOnes64 == Word(65535, 65535, 65535, 65535)

\* `x as u64` for a u16 (zero extension)
U16AsU64(n) == Word(0, 0, 0, n)

\* `x as u16` for a u64 (truncation to the low 16 bits)
U64AsU16(x) == Limb(x, 0)

\* x << n in 64 bits (0 <= n < 64): bits shifted past bit 63 are lost
Shl(x, n) ==
    LET q == n \div 16
        r == n % 16
        limb(k) == (Limb(x, k - q) % (2 ^ (16 - r))) * (2 ^ r)
                   + Limb(x, k - q - 1) \div (2 ^ (16 - r))
    IN Word(limb(3), limb(2), limb(1), limb(0))

\* x >> n in 64 bits (0 <= n < 64), zero filled
Shr(x, n) ==
    LET q == n \div 16
        r == n % 16
        limb(k) == Limb(x, k + q) \div (2 ^ r)
                   + (Limb(x, k + q + 1) % (2 ^ r)) * (2 ^ (16 - r))
    IN Word(limb(3), limb(2), limb(1), limb(0))

RECURSIVE Or16(_, _, _)
Or16(a, b, n) ==
    IF n = 0 THEN 0
    ELSE (IF a % 2 = 1 \/ b % 2 = 1 THEN 1 ELSE 0) + 2 * Or16(a \div 2, b \div 2, n - 1)

RECURSIVE And16(_, _, _)
And16(a, b, n) ==
    IF n = 0 THEN 0
    ELSE (IF a % 2 = 1 /\ b % 2 = 1 THEN 1 ELSE 0) + 2 * And16(a \div 2, b \div 2, n - 1)

BitOr(x, y) == [k \in 1..4 |-> Or16(x[k], y[k], 16)]

BitAnd(x, y) == [k \in 1..4 |-> And16(x[k], y[k], 16)]

\* unsigned x < y
ULt(x, y) == \E k \in 1..4 : x[k] < y[k] /\ \A j \in 1..(k - 1) : x[j] = y[j]

UGt(x, y) == ULt(y, x)

\* wrapping 64-bit x + y + cin
AddC(x, y, cin) ==
    LET s0 == Limb(x, 0) + Limb(y, 0) + cin
        s1 == Limb(x, 1) + Limb(y, 1) + s0 \div 65536
        s2 == Limb(x, 2) + Limb(y, 2) + s1 \div 65536
        s3 == Limb(x, 3) + Limb(y, 3) + s2 \div 65536
    IN Word(s3 % 65536, s2 % 65536, s1 % 65536, s0 % 65536)

Add64(x, y) == AddC(x, y, 0)

Not64(x) == [k \in 1..4 |-> 65535 - x[k]]

\* wrapping 64-bit x - y (two's complement)
Sub64(x, y) == AddC(x, Not64(y), 1)

\* An i64 is <<h, l2, l1, l0>> with the top limb h signed (-32768..32767), the
\* value being h*2^48 + l2*2^32 + l1*2^16 + l0.

\* u64 `as i64`: the same 64 bits, bit 63 now the sign
U64AsI64(x) == <<IF x[1] >= 32768 THEN x[1] - 65536 ELSE x[1], x[2], x[3], x[4]>>

\* i64 `as u64`: the same 64 bits, a negative number becoming 2^64 + itself
I64AsU64(x) == <<IF x[1] < 0 THEN x[1] + 65536 ELSE x[1], x[2], x[3], x[4]>>

-----------------------------------------------------------------------------
(* snow_flake_id.rs *)

\* 0x03_ff_ff_ff_ff_ff
MAX_TIMESTAMP == Word(0, 1023, 65535, 65535)

MAX_MACHINE_ID == 1023

MAX_INCLEMENT_ID == 4095

SnowflakeId_from_u64(value) == value

\* the machine id shifted by 10 instead of 12: its low bits land on the sequence
SnowflakeId_new_Shift10(timestamp, mid, inclement) ==
    IF UGt(timestamp, MAX_TIMESTAMP) THEN [ok |-> FALSE, err |-> "Timestamp"]
    ELSE IF mid > MAX_MACHINE_ID THEN [ok |-> FALSE, err |-> "MachineId"]
    ELSE IF inclement > MAX_INCLEMENT_ID THEN [ok |-> FALSE, err |-> "Increment"]
    ELSE LET tmp0 == Shl(timestamp, 22)
             tmp1 == BitOr(tmp0, Shl(U16AsU64(mid), 10))
             tmp2 == BitOr(tmp1, U16AsU64(inclement))
         IN [ok |-> TRUE, id |-> SnowflakeId_from_u64(tmp2)]

\* the timestamp shifted by 20 instead of 22: its low bits share the machine id's
SnowflakeId_new_Shift20(timestamp, mid, inclement) ==
    IF UGt(timestamp, MAX_TIMESTAMP) THEN [ok |-> FALSE, err |-> "Timestamp"]
    ELSE IF mid > MAX_MACHINE_ID THEN [ok |-> FALSE, err |-> "MachineId"]
    ELSE IF inclement > MAX_INCLEMENT_ID THEN [ok |-> FALSE, err |-> "Increment"]
    ELSE LET tmp0 == Shl(timestamp, 20)
             tmp1 == BitOr(tmp0, Shl(U16AsU64(mid), 12))
             tmp2 == BitOr(tmp1, U16AsU64(inclement))
         IN [ok |-> TRUE, id |-> SnowflakeId_from_u64(tmp2)]

\* the machine id checked before the timestamp
SnowflakeId_new_MachineFirst(timestamp, mid, inclement) ==
    IF mid > MAX_MACHINE_ID THEN [ok |-> FALSE, err |-> "MachineId"]
    ELSE IF UGt(timestamp, MAX_TIMESTAMP) THEN [ok |-> FALSE, err |-> "Timestamp"]
    ELSE IF inclement > MAX_INCLEMENT_ID THEN [ok |-> FALSE, err |-> "Increment"]
    ELSE LET tmp0 == Shl(timestamp, 22)
             tmp1 == BitOr(tmp0, Shl(U16AsU64(mid), 12))
             tmp2 == BitOr(tmp1, U16AsU64(inclement))
         IN [ok |-> TRUE, id |-> SnowflakeId_from_u64(tmp2)]

\* the sequence bound off by one: 4096 is let through
SnowflakeId_new_LaxIncrement(timestamp, mid, inclement) ==
    IF UGt(timestamp, MAX_TIMESTAMP) THEN [ok |-> FALSE, err |-> "Timestamp"]
    ELSE IF mid > MAX_MACHINE_ID THEN [ok |-> FALSE, err |-> "MachineId"]
    ELSE IF inclement > MAX_INCLEMENT_ID + 1 THEN [ok |-> FALSE, err |-> "Increment"]
    ELSE LET tmp0 == Shl(timestamp, 22)
             tmp1 == BitOr(tmp0, Shl(U16AsU64(mid), 12))
             tmp2 == BitOr(tmp1, U16AsU64(inclement))
         IN [ok |-> TRUE, id |-> SnowflakeId_from_u64(tmp2)]

SnowflakeId_new(timestamp, mid, inclement) ==
    IF UGt(timestamp, MAX_TIMESTAMP) THEN [ok |-> FALSE, err |-> "Timestamp"]
    ELSE IF mid > MAX_MACHINE_ID THEN [ok |-> FALSE, err |-> "MachineId"]
    ELSE IF inclement > MAX_INCLEMENT_ID THEN [ok |-> FALSE, err |-> "Increment"]
    ELSE LET tmp0 == Shl(timestamp, 22)
             tmp1 == BitOr(tmp0, Shl(U16AsU64(mid), 12))
             tmp2 == BitOr(tmp1, U16AsU64(inclement))
         IN [ok |-> TRUE, id |-> SnowflakeId_from_u64(tmp2)]

\* 0x3F_F0_00
MachineMask == Word(0, 0, 63, 61440)

\* 0x0F_FF
InclementMask == Word(0, 0, 0, 4095)

\* the mask applied, the shift forgotten
SnowflakeId_machine_id_NoShift(id) == U64AsU16(BitAnd(id, MachineMask))

SnowflakeId_machine_id(id) == U64AsU16(Shr(BitAnd(id, MachineMask), 12))

SnowflakeId_inclement(id) == U64AsU16(BitAnd(id, InclementMask))

SnowflakeId_raw_timestamp(id) == Shr(id, 22)

SnowflakeId_as_u64(id) == id

\* impl From<i64>: SnowflakeId(value as u64)
SnowflakeId_from_i64(value) == I64AsU64(value)

\* self.0 as i64
SnowflakeId_as_i64(id) == U64AsI64(id)

-----------------------------------------------------------------------------
(* chrono: DateTime<Tz> as an instant (whole milliseconds, i64) viewed in a *)
(* zone (its UTC offset in seconds)                                         *)

UtcOffset == 0

\* DateTime::with_timezone: the same instant, viewed in another zone
WithTimezone(dt, tz) == [ms |-> dt.ms, tz |-> tz]

\* DateTime - DateTime, then Duration::num_milliseconds (i64)
DiffMilliseconds(a, b) == U64AsI64(Sub64(a.ms, b.ms))

\* Duration::milliseconds(n)
Duration_milliseconds(n) == n

\* DateTime + Duration: the instant moved by a signed number of milliseconds
DateTimePlus(dt, dur) == [ms |-> Add64(dt.ms, I64AsU64(dur)), tz |-> dt.tz]

\* SnowflakeId::timestamp(the_epoch, time_zone)
SnowflakeId_timestamp(id, epoch, time_zone) ==
    LET pv == WithTimezone(epoch, UtcOffset)
        dur == Duration_milliseconds(U64AsI64(SnowflakeId_raw_timestamp(id)))
    IN WithTimezone(DateTimePlus(pv, dur), time_zone)

-----------------------------------------------------------------------------
(* timestamp.rs: the time source.  It answers with the instant `clock`; the *)
(* environment moves the clock forward, never back (a non-decreasing time   *)
(* source, one millisecond per step).                                       *)

Timestamp_timestamp == WithTimezone(clock, UtcOffset)

OneMs == U16AsU64(1)

Tick(maxTicks) ==
    /\ ticks < maxTicks
    /\ clock' = [clock EXCEPT !.ms = Add64(@, OneMs)]
    /\ ticks' = ticks + 1
    /\ UNCHANGED <<gen, arg_machine, the_epoch, machine_id, recent, pc, pivot, instant, now,
                   candidate, ret, casDone, wrote, stale, ncalls, nmiss, nspurious, issued, issuedFrom>>
    /\ UNCHANGED codecVars

-----------------------------------------------------------------------------
(* snowflake_id_generator.rs *)

MaxSpurious == 1

GEN_MAX_MACHINE_ID == 1023

MAX_INCLEMENT_NUMBER == 4095

\* `>=` for `>`: machine id 1023 is refused
Generator_new_Ge(epoch, mid) ==
    /\ gen = "Uninit"
    /\ arg_machine' = mid
    /\ IF mid >= GEN_MAX_MACHINE_ID
       THEN /\ gen' = "Err"
            /\ UNCHANGED <<the_epoch, machine_id, recent>>
       ELSE /\ gen' = "Ok"
            /\ the_epoch' = WithTimezone(epoch, UtcOffset)
            /\ machine_id' = mid
            /\ recent' = Zero64
    /\ UNCHANGED <<clock, ticks, pc, pivot, instant, now, candidate, ret, casDone, wrote, stale,
                   ncalls, nmiss, nspurious, issued, issuedFrom>>
    /\ UNCHANGED codecVars

\* SnowFlakeIdGenerator::new(timestamp, the_epoch, machine_id)
Generator_new(epoch, mid) ==
    /\ gen = "Uninit"
    /\ arg_machine' = mid
    /\ IF mid > GEN_MAX_MACHINE_ID
       THEN /\ gen' = "Err"
            /\ UNCHANGED <<the_epoch, machine_id, recent>>
       ELSE /\ gen' = "Ok"
            /\ the_epoch' = WithTimezone(epoch, UtcOffset)
            /\ machine_id' = mid
            /\ recent' = Zero64
    /\ UNCHANGED <<clock, ticks, pc, pivot, instant, now, candidate, ret, casDone, wrote, stale,
                   ncalls, nmiss, nspurious, issued, issuedFrom>>
    /\ UNCHANGED codecVars

Generator_machine_id == machine_id

\* the operands of the subtraction exchanged
calc_timestamp_Reversed(scr) == I64AsU64(DiffMilliseconds(the_epoch, scr))

calc_timestamp(scr) == I64AsU64(DiffMilliseconds(scr, the_epoch))

\* the sequence number wraps to 0 after 4095 instead of running out
try_inclement_Wrap(scr) ==
    IF scr >= MAX_INCLEMENT_NUMBER THEN [some |-> TRUE, v |-> 0]
    ELSE [some |-> TRUE, v |-> scr + 1]

\* `>` for `>=`: 4095 is incremented to 4096
try_inclement_Gt(scr) ==
    IF scr > MAX_INCLEMENT_NUMBER THEN [some |-> FALSE, v |-> 0]
    ELSE [some |-> TRUE, v |-> scr + 1]

try_inclement(scr) ==
    IF scr >= MAX_INCLEMENT_NUMBER THEN [some |-> FALSE, v |-> 0]
    ELSE [some |-> TRUE, v |-> scr + 1]

\* how a call ends
NoCall == [kind |-> "NoCall", id |-> Zero64, cause |-> "-"]
Running == [kind |-> "Running", id |-> Zero64, cause |-> "-"]
RetSome(id) == [kind |-> "Some", id |-> id, cause |-> "-"]
RetNone(cause) == [kind |-> "None", id |-> Zero64, cause |-> cause]
Panicked(err) == [kind |-> "Panic", id |-> Zero64, cause |-> err]

\* generate(), line 59: let pivot = SnowflakeId::from(self.recent.load(Relaxed))
Load(c, budget) ==
    /\ gen = "Ok"
    /\ pc[c] = "idle"
    /\ budget
    /\ ncalls' = ncalls + 1
    /\ pivot' = [pivot EXCEPT ![c] = SnowflakeId_from_u64(recent)]
    /\ pc' = [pc EXCEPT ![c] = "time"]
    /\ ret' = [ret EXCEPT ![c] = Running]
    /\ casDone' = [casDone EXCEPT ![c] = 0]
    /\ wrote' = [wrote EXCEPT ![c] = FALSE]
    /\ stale' = [stale EXCEPT ![c] = FALSE]
    /\ UNCHANGED <<gen, arg_machine, the_epoch, machine_id, recent, clock, ticks, instant, now,
                   candidate, nmiss, nspurious, issued, issuedFrom>>
    /\ UNCHANGED codecVars

\* the reset forgotten: the sequence number goes on from pivot's in a new millisecond
ChooseInclement_NoReset(pv, n) == try_inclement(SnowflakeId_inclement(pv))

\* generate(), lines 62-66: the sequence number for `now` after `pivot`
ChooseInclement(pv, n) ==
    IF SnowflakeId_raw_timestamp(pv) = n
    THEN try_inclement(SnowflakeId_inclement(pv))
    ELSE [some |-> TRUE, v |-> 0]

\* a call ends without (further) touching recent
Return(c, r) ==
    /\ pc' = [pc EXCEPT ![c] = "idle"]
    /\ ret' = [ret EXCEPT ![c] = r]
    /\ nmiss' = IF r.kind = "Some" THEN nmiss ELSE nmiss + 1

\* the candidate built from the loaded value's timestamp instead of now
ReadTime_PivotTimestamp(c) ==
    /\ pc[c] = "time"
    /\ LET n == calc_timestamp(Timestamp_timestamp)
           inc == ChooseInclement(pivot[c], n)
           cand == SnowflakeId_new(SnowflakeId_raw_timestamp(pivot[c]), machine_id, inc.v)
       IN /\ instant' = [instant EXCEPT ![c] = Timestamp_timestamp]
          /\ now' = [now EXCEPT ![c] = n]
          /\ IF ~inc.some
             THEN Return(c, RetNone("exhausted")) /\ UNCHANGED candidate
             ELSE IF ~cand.ok
             THEN Return(c, Panicked(cand.err)) /\ UNCHANGED candidate
             ELSE /\ candidate' = [candidate EXCEPT ![c] = cand.id]
                  /\ pc' = [pc EXCEPT ![c] = "cas"]
                  /\ UNCHANGED <<ret, nmiss>>
    /\ UNCHANGED <<gen, arg_machine, the_epoch, machine_id, recent, clock, ticks, pivot,
                   casDone, wrote, stale, ncalls, nspurious, issued, issuedFrom>>
    /\ UNCHANGED codecVars

\* generate(), lines 60-68: read the time, choose the sequence number (`?` returns
\* None on exhaustion), build the candidate (unwrap panics on Err)
ReadTime(c) ==
    /\ pc[c] = "time"
    /\ LET n == calc_timestamp(Timestamp_timestamp)
           inc == ChooseInclement(pivot[c], n)
           cand == SnowflakeId_new(n, machine_id, inc.v)
       IN /\ instant' = [instant EXCEPT ![c] = Timestamp_timestamp]
          /\ now' = [now EXCEPT ![c] = n]
          /\ IF ~inc.some
             THEN Return(c, RetNone("exhausted")) /\ UNCHANGED candidate
             ELSE IF ~cand.ok
             THEN Return(c, Panicked(cand.err)) /\ UNCHANGED candidate
             ELSE /\ candidate' = [candidate EXCEPT ![c] = cand.id]
                  /\ pc' = [pc EXCEPT ![c] = "cas"]
                  /\ UNCHANGED <<ret, nmiss>>
    /\ UNCHANGED <<gen, arg_machine, the_epoch, machine_id, recent, clock, ticks, pivot,
                   casDone, wrote, stale, ncalls, nspurious, issued, issuedFrom>>
    /\ UNCHANGED codecVars

\* a plain store for the compare-and-swap: the slot is not compared with pivot
CasOk_NoCompare(c, log) ==
    /\ pc[c] = "cas"
    /\ recent' = SnowflakeId_as_u64(candidate[c])
    /\ casDone' = [casDone EXCEPT ![c] = @ + 1]
    /\ wrote' = [wrote EXCEPT ![c] = TRUE]
    /\ stale' = [d \in DOMAIN stale |-> IF d # c /\ pc[d] # "idle" THEN TRUE ELSE stale[d]]
    /\ issued' = IF log THEN Append(issued, candidate[c]) ELSE issued
    /\ issuedFrom' = IF log THEN Append(issuedFrom, pivot[c]) ELSE issuedFrom
    /\ pc' = [pc EXCEPT ![c] = "idle"]
    /\ ret' = [ret EXCEPT ![c] = [kind |-> "Some", id |-> candidate[c], cause |-> "-"]]
    /\ UNCHANGED <<gen, arg_machine, the_epoch, machine_id, clock, ticks, pivot, instant, now,
                   candidate, ncalls, nmiss, nspurious>>
    /\ UNCHANGED codecVars

\* an update to the maximum for the compare-and-swap: the candidate is stored
\* whenever it is greater than the slot, whatever the call had loaded
CasOk_Newer(c, log) ==
    /\ pc[c] = "cas"
    /\ ULt(recent, SnowflakeId_as_u64(candidate[c]))
    /\ recent' = SnowflakeId_as_u64(candidate[c])
    /\ casDone' = [casDone EXCEPT ![c] = @ + 1]
    /\ wrote' = [wrote EXCEPT ![c] = TRUE]
    /\ stale' = [d \in DOMAIN stale |-> IF d # c /\ pc[d] # "idle" THEN TRUE ELSE stale[d]]
    /\ issued' = IF log THEN Append(issued, candidate[c]) ELSE issued
    /\ issuedFrom' = IF log THEN Append(issuedFrom, pivot[c]) ELSE issuedFrom
    /\ Return(c, RetSome(candidate[c]))
    /\ UNCHANGED <<gen, arg_machine, the_epoch, machine_id, clock, ticks, pivot, instant, now,
                   candidate, ncalls, nspurious>>
    /\ UNCHANGED codecVars

\* the exchange leaves the slot as it was, and the candidate is returned all the same
CasOk_KeepsSlot(c, log) ==
    /\ pc[c] = "cas"
    /\ recent = SnowflakeId_as_u64(pivot[c])
    /\ recent' = recent
    /\ casDone' = [casDone EXCEPT ![c] = @ + 1]
    /\ wrote' = [wrote EXCEPT ![c] = TRUE]
    /\ stale' = stale
    /\ issued' = IF log THEN Append(issued, candidate[c]) ELSE issued
    /\ issuedFrom' = IF log THEN Append(issuedFrom, pivot[c]) ELSE issuedFrom
    /\ Return(c, RetSome(candidate[c]))
    /\ UNCHANGED <<gen, arg_machine, the_epoch, machine_id, clock, ticks, pivot, instant, now,
                   candidate, ncalls, nspurious>>
    /\ UNCHANGED codecVars

\* generate(), lines 70-76: compare_exchange_weak succeeds, Ok(_) => Some(candidate)
CasOk(c, log) ==
    /\ pc[c] = "cas"
    /\ recent = SnowflakeId_as_u64(pivot[c])
    /\ recent' = SnowflakeId_as_u64(candidate[c])
    /\ casDone' = [casDone EXCEPT ![c] = @ + 1]
    /\ wrote' = [wrote EXCEPT ![c] = TRUE]
    /\ stale' = [d \in DOMAIN stale |-> IF d # c /\ pc[d] # "idle" THEN TRUE ELSE stale[d]]
    /\ issued' = IF log THEN Append(issued, candidate[c]) ELSE issued
    /\ issuedFrom' = IF log THEN Append(issuedFrom, pivot[c]) ELSE issuedFrom
    /\ Return(c, RetSome(candidate[c]))
    /\ UNCHANGED <<gen, arg_machine, the_epoch, machine_id, clock, ticks, pivot, instant, now,
                   candidate, ncalls, nspurious>>
    /\ UNCHANGED codecVars

\* a retry loop around the compare-and-swap: a failed attempt is made again
CasFail_Retry(c) ==
    /\ pc[c] = "cas"
    /\ recent # pivot[c]
    /\ casDone[c] < 2
    /\ casDone' = [casDone EXCEPT ![c] = @ + 1]
    /\ UNCHANGED <<gen, arg_machine, the_epoch, machine_id, recent, clock, ticks, pc, pivot,
                   instant, now, candidate, ret, wrote, stale, ncalls, nmiss, nspurious, issued, issuedFrom>>
    /\ UNCHANGED codecVars

\* generate(), lines 70-77: compare_exchange_weak fails, Err(_) => None.  The weak
\* variant may fail although recent still equals pivot (a spurious failure); the
\* model lets that happen MaxSpurious times.
CasFail(c) ==
    /\ pc[c] = "cas"
    /\ casDone' = [casDone EXCEPT ![c] = @ + 1]
    /\ IF recent = SnowflakeId_as_u64(pivot[c])
       THEN /\ nspurious < MaxSpurious
            /\ nspurious' = nspurious + 1
            /\ Return(c, RetNone("spurious"))
       ELSE /\ UNCHANGED nspurious
            /\ Return(c, RetNone("lost"))
    /\ UNCHANGED <<gen, arg_machine, the_epoch, machine_id, recent, clock, ticks, pivot,
                   instant, now, candidate, wrote, stale, ncalls, issued, issuedFrom>>
    /\ UNCHANGED codecVars

Cas(c, log) == CasOk(c, log) \/ CasFail(c)

-----------------------------------------------------------------------------
(* the codec applied to drawn arguments *)

NotApplied == [state |-> "args", new |-> [ok |-> FALSE, err |-> "-"],
               ts |-> Zero64, mid |-> 0, inc |-> 0]

\* let r = SnowflakeId::new(t, m, s)
CodecConstruct ==
    /\ c_res.state = "args"
    /\ c_res' = [c_res EXCEPT !.state = "built",
                              !.new = SnowflakeId_new(c_args[1], c_args[2], c_args[3])]
    /\ UNCHANGED <<c_args, p_args, p_res>>
    /\ UNCHANGED genVars

\* r.unwrap().raw_timestamp(), .machine_id(), .inclement()
CodecDecode ==
    /\ c_res.state = "built"
    /\ c_res.new.ok
    /\ c_res' = [c_res EXCEPT !.state = "decoded",
                              !.ts = SnowflakeId_raw_timestamp(c_res.new.id),
                              !.mid = SnowflakeId_machine_id(c_res.new.id),
                              !.inc = SnowflakeId_inclement(c_res.new.id)]
    /\ UNCHANGED <<c_args, p_args, p_res>>
    /\ UNCHANGED genVars

PairNotApplied == [state |-> "args",
                   a |-> [ok |-> FALSE, err |-> "-"], b |-> [ok |-> FALSE, err |-> "-"],
                   ua |-> Zero64, ub |-> Zero64, ia |-> Zero64, ib |-> Zero64,
                   fa |-> Zero64, fb |-> Zero64]

\* let a = SnowflakeId::new(t1, m1, s1); let b = SnowflakeId::new(t2, m2, s2)
PairConstruct ==
    /\ p_res.state = "args"
    /\ p_res' = [p_res EXCEPT
                    !.state = "built",
                    !.a = SnowflakeId_new(p_args[1][1], p_args[1][2], p_args[1][3]),
                    !.b = SnowflakeId_new(p_args[2][1], p_args[2][2], p_args[2][3])]
    /\ UNCHANGED <<c_args, c_res, p_args>>
    /\ UNCHANGED genVars

\* a.as_u64(), a.as_i64(), SnowflakeId::from(a.as_i64()).as_u64(); the same for b
PairConvert ==
    /\ p_res.state = "built"
    /\ p_res.a.ok
    /\ p_res.b.ok
    /\ p_res' = [p_res EXCEPT
                    !.state = "converted",
                    !.ua = SnowflakeId_as_u64(p_res.a.id),
                    !.ub = SnowflakeId_as_u64(p_res.b.id),
                    !.ia = SnowflakeId_as_i64(p_res.a.id),
                    !.ib = SnowflakeId_as_i64(p_res.b.id),
                    !.fa = SnowflakeId_as_u64(
                               SnowflakeId_from_i64(SnowflakeId_as_i64(p_res.a.id))),
                    !.fb = SnowflakeId_as_u64(
                               SnowflakeId_from_i64(SnowflakeId_as_i64(p_res.b.id)))]
    /\ UNCHANGED <<c_args, c_res, p_args>>
    /\ UNCHANGED genVars

-----------------------------------------------------------------------------
(* inputs *)

\* 0x0155_5555_5555: 0101...01 over the 42 bits of a timestamp
Alternating42 == Word(0, 341, 21845, 21845)

\* timestamps given to SnowflakeId::new: in range, at the maximum, and beyond it
TimestampInputs ==
    {Zero64, OneMs, Alternating42, Shl(Alternating42, 1), Word(0, 512, 0, 0),
     Sub64(MAX_TIMESTAMP, OneMs), MAX_TIMESTAMP, Add64(MAX_TIMESTAMP, OneMs),
     Word(21845, 21845, 21845, 21845), AllOnes64}

MachineInputs == {0, 1, 169, 682, 1023, 1024, 65535}

InclementInputs == {0, 1, 7, 2730, 4095, 4096, 65535}

\* epochs given to SnowFlakeIdGenerator::new: one instant, in UTC and in UTC+9
EpochWord == Shl(OneMs, 40)

EpochInputs == {[ms |-> EpochWord, tz |-> 0], [ms |-> EpochWord, tz |-> 9 * 3600]}

\* the instant `off` milliseconds (i64) after the epoch instant
AtOffset(off) == [ms |-> Add64(EpochWord, off), tz |-> 0]

MinusOneMs == AllOnes64

-----------------------------------------------------------------------------
(* specifications *)

NoGenerator(callers, start) ==
    /\ gen = "Uninit"
    /\ arg_machine = 0
    /\ the_epoch = [ms |-> Zero64, tz |-> 0]
    /\ machine_id = 0
    /\ recent = Zero64
    /\ clock = start
    /\ ticks = 0
    /\ pc = [c \in callers |-> "idle"]
    /\ pivot = [c \in callers |-> Zero64]
    /\ instant = [c \in callers |-> [ms |-> Zero64, tz |-> 0]]
    /\ now = [c \in callers |-> Zero64]
    /\ candidate = [c \in callers |-> Zero64]
    /\ ret = [c \in callers |-> NoCall]
    /\ casDone = [c \in callers |-> 0]
    /\ wrote = [c \in callers |-> FALSE]
    /\ stale = [c \in callers |-> FALSE]
    /\ ncalls = 0
    /\ nmiss = 0
    /\ nspurious = 0
    /\ issued = <<>>
    /\ issuedFrom = <<>>

NoPair ==
    /\ p_args = <<<<Zero64, 0, 0>>, <<Zero64, 0, 0>>>>
    /\ p_res = PairNotApplied

NoCodec ==
    /\ c_args = <<Zero64, 0, 0>>
    /\ c_res = NotApplied
    /\ NoPair

\* ---- Spec: concurrent callers of one generator, from its construction

NCallers == 2

MaxCalls == 3

MaxTicks == 2

Callers == 1..NCallers

GenMachineInputs == {0, 1023, 1024, 65535}

\* the clock starts just before the epoch, or just before the last encodable ms
ClockStarts == {AtOffset(MinusOneMs), AtOffset(Sub64(MAX_TIMESTAMP, OneMs))}

Init ==
    /\ \E start \in ClockStarts : NoGenerator(Callers, start)
    /\ NoCodec

Next ==
    \/ \E e \in EpochInputs, m \in GenMachineInputs : Generator_new(e, m)
    \/ \E c \in Callers : Load(c, ncalls < MaxCalls)
    \/ \E c \in Callers : ReadTime(c)
    \/ \E c \in Callers : Cas(c, TRUE)
    \/ Tick(MaxTicks)

Spec == Init /\ [][Next]_vars

\* ---- SeqSpec: one caller and a time source that returns the same instant on
\* every call; the caller goes on until MaxSeqMisses of its calls have ended
\* without an identifier, so the sequence runs out

MaxSeqMisses == 2

SeqMachineInputs == {1, 1023}

\* the milliseconds (offsets from the epoch) AgedSpec starts in: the first after
\* the epoch, and the last but one that an identifier can hold
AgedTimes == {OneMs, Sub64(MAX_TIMESTAMP, OneMs)}

SeqClockStarts == {AtOffset(off) : off \in {MinusOneMs, Zero64} \cup AgedTimes}

SeqInit ==
    /\ \E start \in SeqClockStarts : NoGenerator({1}, start)
    /\ NoCodec

SeqNext ==
    \/ \E e \in EpochInputs, m \in SeqMachineInputs : Generator_new(e, m)
    \/ Load(1, nmiss < MaxSeqMisses)
    \/ ReadTime(1)
    \/ Cas(1, FALSE)

SeqSpec == SeqInit /\ [][SeqNext]_vars

\* ---- AgedSpec: concurrent callers of a generator that has issued all but one of
\* the identifiers of the current millisecond (a state SeqSpec reaches)

MaxAgedCalls == 3

MaxAgedTicks == 2

AgedSlot(t, m) == SnowflakeId_new(t, m, MAX_INCLEMENT_NUMBER - 1).id

AgedInit ==
    /\ \E t \in AgedTimes, m \in {1023} :
            /\ gen = "Ok"
            /\ arg_machine = m
            /\ machine_id = m
            /\ the_epoch = AtOffset(Zero64)
            /\ clock = AtOffset(t)
            /\ recent = AgedSlot(t, m)
            /\ issued = <<AgedSlot(t, m)>>
            /\ issuedFrom = <<SnowflakeId_new(t, m, MAX_INCLEMENT_NUMBER - 2).id>>
    /\ ticks = 0
    /\ pc = [c \in Callers |-> "idle"]
    /\ pivot = [c \in Callers |-> Zero64]
    /\ instant = [c \in Callers |-> [ms |-> Zero64, tz |-> 0]]
    /\ now = [c \in Callers |-> Zero64]
    /\ candidate = [c \in Callers |-> Zero64]
    /\ ret = [c \in Callers |-> NoCall]
    /\ casDone = [c \in Callers |-> 0]
    /\ wrote = [c \in Callers |-> FALSE]
    /\ stale = [c \in Callers |-> FALSE]
    /\ ncalls = 0
    /\ nmiss = 0
    /\ nspurious = 0
    /\ NoCodec

AgedNext ==
    \/ \E c \in Callers : Load(c, ncalls < MaxAgedCalls)
    \/ \E c \in Callers : ReadTime(c)
    \/ \E c \in Callers : Cas(c, TRUE)
    \/ Tick(MaxAgedTicks)

AgedSpec == AgedInit /\ [][AgedNext]_vars

\* the state AgedInit starts from, as SeqSpec reaches it
AgedStateReached ==
    /\ gen = "Ok"
    /\ pc[1] = "idle"
    /\ \E t \in AgedTimes : clock = AtOffset(t) /\ recent = AgedSlot(t, machine_id)

\* ---- CodecSpec: SnowflakeId::new and the accessors on drawn arguments

CodecInit ==
    /\ NoGenerator({}, AtOffset(Zero64))
    /\ c_args \in TimestampInputs \X MachineInputs \X InclementInputs
    /\ c_res = NotApplied
    /\ NoPair

CodecNext == CodecConstruct \/ CodecDecode

CodecSpec == CodecInit /\ [][CodecNext]_vars

\* ---- PairSpec: two identifiers built from drawn arguments and turned into
\* unsigned and signed integers

\* 0x01ff_ffff_ffff = 2^41 - 1, the largest timestamp that leaves bit 63 clear
HalfTimestamp == Word(0, 511, 65535, 65535)

PairTimestamps ==
    {Zero64, OneMs, Alternating42, HalfTimestamp, Add64(HalfTimestamp, OneMs),
     Sub64(MAX_TIMESTAMP, OneMs), MAX_TIMESTAMP, Add64(MAX_TIMESTAMP, OneMs)}

PairInputs == PairTimestamps \X {0, 1023} \X {0, 4095}

PairInit ==
    /\ NoGenerator({}, AtOffset(Zero64))
    /\ c_args = <<Zero64, 0, 0>>
    /\ c_res = NotApplied
    /\ p_args \in PairInputs \X PairInputs
    /\ p_res = PairNotApplied

PairNext == PairConstruct \/ PairConvert

PairSpec == PairInit /\ [][PairNext]_vars

-----------------------------------------------------------------------------
(* properties *)

\* caller c's last generate() call has ended
Ended(c) == pc[c] = "idle" /\ ret[c].kind # "NoCall"

\* t, m, s within the field maxima, read off the limbs: t < 2^42, m < 2^10, s < 2^12
InRange(t, m, s) == t[1] = 0 /\ t[2] <= 1023 /\ m <= 1023 /\ s <= 4095

\* C1 (Spec): uniqueness. With a non-decreasing time source, under every
\* interleaving of concurrent generate() calls, no two calls that return Some
\* return identifiers with the same raw 64-bit value.
C1_Uniqueness ==
    /\ \A i, j \in 1..Len(issued) : i # j => issued[i] # issued[j]
    /\ \A c \in DOMAIN ret : ret[c].kind = "Some" =>
           \E i \in 1..Len(issued) : issued[i] = ret[c].id

\* two callers hold identifiers of the same millisecond, after one call lost a race
C1_Witness ==
    /\ Len(issued) >= 2
    /\ \E c, d \in DOMAIN ret :
           /\ c # d
           /\ ret[c].kind = "Some"
           /\ ret[d].kind = "Some"
           /\ SnowflakeId_raw_timestamp(ret[c].id) = SnowflakeId_raw_timestamp(ret[d].id)
    /\ nmiss >= 1

\* C2 (SeqSpec): single caller, time source fixed at one instant: the first 4096
\* calls return Some with sequence 0, 1, ..., 4095 in that order, each with the
\* timestamp-offset of that instant and the generator's machine id; the 4097th
\* call returns None.
C2_FixedInstantRun ==
    Ended(1) =>
        /\ ncalls <= 4096 =>
              /\ ret[1].kind = "Some"
              /\ SnowflakeId_inclement(ret[1].id) = ncalls - 1
              /\ SnowflakeId_raw_timestamp(ret[1].id) = calc_timestamp(clock)
              /\ SnowflakeId_machine_id(ret[1].id) = Generator_machine_id
        /\ ncalls = 4097 => ret[1].kind = "None"

\* the call loaded an identifier of sequence 4095 and computed the same millisecond
SameMsExhausted(c) ==
    /\ SnowflakeId_inclement(pivot[c]) = 4095
    /\ now[c] = SnowflakeId_raw_timestamp(pivot[c])

\* the call loaded an identifier of sequence 4095 and computed the next millisecond
NextMsAfterExhausted(c) ==
    /\ SnowflakeId_inclement(pivot[c]) = 4095
    /\ now[c] = Add64(SnowflakeId_raw_timestamp(pivot[c]), OneMs)

IssuedFresh(c) ==
    /\ ret[c].kind = "Some"
    /\ SnowflakeId_inclement(ret[c].id) = 0
    /\ SnowflakeId_raw_timestamp(ret[c].id) = now[c]
    /\ SnowflakeId_machine_id(ret[c].id) = Generator_machine_id

ReturnedNoneAtOnce(c) == ret[c].kind = "None" /\ casDone[c] = 0 /\ ~wrote[c]

C4_NeverPanics == \A c \in DOMAIN ret : ret[c].kind # "Panic"

\* (a) of C5: the loaded value has the timestamp now and sequence 4095
Exhausted(c) == SameMsExhausted(c) /\ casDone[c] = 0

C6_NoneWritesNothing ==
    [][\A c \in DOMAIN pc :
          /\ casDone'[c] <= 1
          /\ ret[c].kind = "Running" /\ ret'[c].kind = "None" =>
                /\ recent' = recent
                /\ ~wrote'[c]
                /\ pc'[c] = "idle"
                /\ ret'[c].cause = "exhausted" => casDone'[c] = 0
                /\ ret'[c].cause # "exhausted" => casDone'[c] = 1 /\ pc[c] = "cas"]_vars

\* a call came back empty from its one failed compare-and-swap, the slot having moved
C6_Witness ==
    \E c \in DOMAIN pc :
        /\ Ended(c)
        /\ ret[c].kind = "None"
        /\ casDone[c] = 1
        /\ ~wrote[c]
        /\ recent # pivot[c]

\* C7 (Spec): generate() is wait-free: every call returns Some or None after at
\* most one load, one time read and one compare-and-swap of its own.
C7_ReturnsSomeOrNone ==
    \A c \in DOMAIN pc :
        /\ casDone[c] <= 1
        /\ ret[c].kind = "Running" <=> pc[c] \in {"time", "cas"}
        /\ Ended(c) => ret[c].kind \in {"Some", "None"}

\* C8 (Spec): SnowFlakeIdGenerator::new succeeds exactly when machine_id <= 1023;
\* beyond it the result is MachineIdOutOfRange and no generator exists; within it
\* the generator starts with slot 0 and machine_id() equal to the argument.
C8_Construction ==
    /\ gen = "Err" => arg_machine > 1023 /\ ncalls = 0 /\ \A c \in DOMAIN pc : pc[c] = "idle"
    /\ gen = "Ok" => arg_machine <= 1023 /\ Generator_machine_id = arg_machine
    /\ gen = "Ok" /\ ncalls = 0 => recent = Zero64
    /\ gen = "Uninit" => ncalls = 0

\* construction with machine id 1024 was refused
C8_Witness == gen = "Err" /\ arg_machine = 1024

\* C9 (CodecSpec): round trip. For every t <= 0x3FFFFFFFFFF, m <= 1023, s <= 4095,
\* SnowflakeId::new(t, m, s) succeeds and the identifier decodes to
\* raw_timestamp() = t, machine_id() = m and inclement() = s.
C9_RoundTrip ==
    InRange(c_args[1], c_args[2], c_args[3]) =>
        /\ c_res.state # "args" => c_res.new.ok
        /\ c_res.state = "decoded" =>
              /\ c_res.ts = c_args[1]
              /\ c_res.mid = c_args[2]
              /\ c_res.inc = c_args[3]

\* an identifier with alternating bits in every field has been decoded
C9_Witness ==
    /\ c_res.state = "decoded"
    /\ c_args = <<Alternating42, 682, 2730>>
    /\ c_res.mid = 682

\* bit i of a u16
Bit16(n, i) == (n \div (2 ^ i)) % 2

\* C10 (CodecSpec): bit layout. For in-range (t, m, s) the raw value of
\* SnowflakeId::new(t, m, s) has s in bits 0..11, m in bits 12..21 and t in bits
\* 22..63, no field reaching into another and no bit of t shifted out; the three
\* maxima give the all-ones value 2^64 - 1.
C10_BitLayout ==
    c_res.state # "args" /\ InRange(c_args[1], c_args[2], c_args[3]) =>
        /\ c_res.new.ok
        /\ \A i \in 0..63 :
              Bit(SnowflakeId_as_u64(c_res.new.id), i) =
                  IF i < 12 THEN Bit16(c_args[3], i)
                  ELSE IF i < 22 THEN Bit16(c_args[2], i - 12)
                  ELSE Bit(c_args[1], i - 22)
        /\ c_args = <<MAX_TIMESTAMP, 1023, 4095>> =>
              \A i \in 0..63 : Bit(SnowflakeId_as_u64(c_res.new.id), i) = 1

\* the three maxima have been packed into the all-ones word
C10_Witness ==
    /\ c_res.state = "built"
    /\ c_args = <<MAX_TIMESTAMP, MAX_MACHINE_ID, MAX_INCLEMENT_ID>>
    /\ c_res.new.ok
    /\ c_res.new.id = AllOnes64

\* a timestamp of at most 42 bits, read off the limbs
TimestampFits(t) == t[1] = 0 /\ t[2] <= 1023

\* C11 (CodecSpec): SnowflakeId::new checks timestamp, machine id, sequence in
\* that order and returns the error naming the first of them that exceeds its
\* maximum; it returns Ok exactly when all three are within their maxima, and an
\* error carries no identifier.
C11_ErrorOrder ==
    c_res.state # "args" =>
        LET t == c_args[1]
            m == c_args[2]
            s == c_args[3]
            r == c_res.new
        IN /\ r.ok <=> InRange(t, m, s)
           /\ ~TimestampFits(t) => ~r.ok /\ r.err = "Timestamp"
           /\ TimestampFits(t) /\ m > 1023 => ~r.ok /\ r.err = "MachineId"
           /\ TimestampFits(t) /\ m <= 1023 /\ s > 4095 => ~r.ok /\ r.err = "Increment"
           /\ ~r.ok => DOMAIN r = {"ok", "err"}
           /\ r.ok => DOMAIN r = {"ok", "id"}

\* all three arguments out of range: the timestamp is the one reported
C11_Witness ==
    /\ c_res.state = "built"
    /\ c_args = <<AllOnes64, 65535, 65535>>
    /\ ~c_res.new.ok
    /\ c_res.new.err = "Timestamp"

\* C12 (CodecSpec), as stated: t = MAX_TIMESTAMP + 1 is rejected with Timestamp,
\* m = MAX_MACHINE_ID + 1 with MachineId and s = MAX_SEQUENCE + 1 with Increment,
\* each whatever the values, valid or invalid, of the other two arguments.
C12_Original ==
    c_res.state # "args" =>
        /\ c_args[1] = Add64(MAX_TIMESTAMP, OneMs) =>
               ~c_res.new.ok /\ c_res.new.err = "Timestamp"
        /\ c_args[2] = 1024 => ~c_res.new.ok /\ c_res.new.err = "MachineId"
        /\ c_args[3] = 4096 => ~c_res.new.ok /\ c_res.new.err = "Increment"

\* C12 (CodecSpec), amended: t = MAX_TIMESTAMP + 1 is rejected with Timestamp
\* whatever the other two arguments; m = MAX_MACHINE_ID + 1 is rejected, with
\* MachineId when the timestamp is in range (whatever the sequence) and with
\* Timestamp otherwise; s = MAX_SEQUENCE + 1 is rejected, with Increment when
\* timestamp and machine id are both in range and otherwise with the error of the
\* first of those two that is out of range.
C12_BoundaryRejected ==
    c_res.state # "args" =>
        /\ c_args[1] = Add64(MAX_TIMESTAMP, OneMs) =>
               ~c_res.new.ok /\ c_res.new.err = "Timestamp"
        /\ c_args[2] = 1024 =>
               /\ ~c_res.new.ok
               /\ c_res.new.err =
                      IF TimestampFits(c_args[1]) THEN "MachineId" ELSE "Timestamp"
        /\ c_args[3] = 4096 =>
               /\ ~c_res.new.ok
               /\ c_res.new.err =
                      IF ~TimestampFits(c_args[1]) THEN "Timestamp"
                      ELSE IF c_args[2] > 1023 THEN "MachineId"
                      ELSE "Increment"

\* the sequence just beyond its maximum, the other two at theirs
C12_Witness ==
    /\ c_res.state = "built"
    /\ c_args = <<MAX_TIMESTAMP, MAX_MACHINE_ID, MAX_INCLEMENT_ID + 1>>
    /\ ~c_res.new.ok
    /\ c_res.new.err = "Increment"

\* C13 (PairSpec): order preservation. For two identifiers built by
\* SnowflakeId::new with timestamps t1 < t2 and any in-range machine ids and
\* sequences, as_u64() of the first is strictly less than as_u64() of the second.
C13_OrderPreserved ==
    p_res.state = "converted" =>
        /\ ULt(p_args[1][1], p_args[2][1]) => ULt(p_res.ua, p_res.ub)
        /\ ULt(p_args[2][1], p_args[1][1]) => ULt(p_res.ub, p_res.ua)

\* the earlier identifier has the largest machine id and sequence, the later the
\* smallest, and the timestamps differ by one millisecond
C13_Witness ==
    /\ p_res.state = "converted"
    /\ p_args = <<<<Zero64, 1023, 4095>>, <<OneMs, 0, 0>>>>
    /\ ULt(p_res.ua, p_res.ub)

\* signed x < y on two i64
ILt(x, y) == \E k \in 1..4 : x[k] < y[k] /\ \A j \in 1..(k - 1) : x[j] = y[j]

\* C14 (PairSpec): the signed form sorts like the unsigned one. For two
\* identifiers with in-range timestamps t1 < t2, anywhere in the 42-bit range,
\* as_i64() of the first is strictly less than as_i64() of the second, and
\* SnowflakeId::from(id.as_i64()) has the raw value of id.
C14_SignedSortable ==
    p_res.state = "converted" =>
        /\ ULt(p_args[1][1], p_args[2][1]) => ILt(p_res.ia, p_res.ib)
        /\ p_res.fa = p_res.ua
        /\ p_res.fb = p_res.ub

\* unsigned x <= y
ULe(x, y) == x = y \/ ULt(x, y)

\* the zones an identifier's instant is asked in: UTC, UTC+9, UTC-5
TargetZones == {0, 9 * 3600, 0 - 5 * 3600}

\* caller c has read the time in a call
HasReadTime(c) == pc[c] = "cas" \/ Ended(c)

\* C15 (Spec): timestamp round trip. An identifier with timestamp-offset X decodes
\* against epoch E to the instant E + X ms, in whichever zone E is given and
\* the result is asked; for every instant T with E <= T <= E + MAX_TIMESTAMP ms
\* calc_timestamp(T) is T - E; so an identifier generated at T decodes, with the
\* generator's epoch, to T.
C15_TimestampRoundTrip ==
    \A c \in DOMAIN pc :
        LET E == the_epoch.ms
            T == instant[c].ms
        IN /\ HasReadTime(c) /\ ULe(E, T) /\ ULe(T, Add64(E, MAX_TIMESTAMP)) =>
                 /\ TimestampFits(now[c])
                 /\ Add64(E, now[c]) = T
           /\ ret[c].kind = "Some" =>
                 \A z \in TargetZones, ez \in TargetZones :
                     LET d == SnowflakeId_timestamp(ret[c].id, WithTimezone(the_epoch, ez), z)
                     IN /\ d.tz = z
                        /\ d.ms = Add64(E, SnowflakeId_raw_timestamp(ret[c].id))
                        /\ Ended(c) => d.ms = T

\* an identifier of the last millisecond an identifier can hold has been issued
C15_Witness ==
    \E c \in DOMAIN pc :
        /\ Ended(c)
        /\ ret[c].kind = "Some"
        /\ instant[c].ms = Add64(the_epoch.ms, MAX_TIMESTAMP)
        /\ SnowflakeId_timestamp(ret[c].id, the_epoch, UtcOffset).ms = instant[c].ms

\* the slot holds the identifier issued last, or 0 when none has been issued
SlotIsLastIssued ==
    /\ recent = IF Len(issued) = 0 THEN Zero64 ELSE issued[Len(issued)]
    /\ Len(issued) = 0 => \A c \in DOMAIN ret : ret[c].kind # "Some"

\* C16 (Spec): slot invariant. The slot is 0 as long as no generate() call has
\* returned Some, and afterwards the raw value of the identifier returned by the
\* most recent successful compare-and-swap; it changes only at a successful
\* compare-and-swap inside generate(), which sets it to exactly the identifier
\* that call returns.
C16_SlotInvariant ==
    [][/\ SlotIsLastIssued
       /\ SlotIsLastIssued'
       /\ recent' # recent =>
              \E c \in DOMAIN pc :
                  /\ pc[c] = "cas" /\ pc'[c] = "idle"
                  /\ recent = pivot[c]
                  /\ casDone'[c] = casDone[c] + 1
                  /\ ret'[c] = RetSome(recent')
                  /\ \A d \in DOMAIN pc \ {c} : ret'[d] = ret[d] /\ pc'[d] = pc[d]
       /\ \A c \in DOMAIN pc :
              ret[c].kind = "Running" /\ ret'[c].kind = "Some" =>
                  recent' = ret'[c].id /\ recent' # recent]_vars

\* two identifiers have been issued, a call has lost a race, and the slot holds
\* the second identifier
C16_Witness ==
    /\ Len(issued) = 2
    /\ recent = issued[2]
    /\ recent # issued[1]
    /\ \E c \in DOMAIN pc : ret[c].kind = "None" /\ ret[c].cause = "lost"

\* C17 (Spec): sequence reset. When the slot value a generate() call loaded is
\* zero (nothing issued yet), the call chooses sequence 0 for every instant at or
\* after the epoch; in general it chooses 0 exactly when now differs from the
\* loaded value's timestamp field, and the loaded sequence + 1 exactly when they
\* are equal.
C17_SequenceReset ==
    \A c \in DOMAIN pc :
        pc[c] = "cas" =>
            LET chosen == SnowflakeId_inclement(candidate[c])
                same == SnowflakeId_raw_timestamp(pivot[c]) = now[c]
            IN /\ pivot[c] = Zero64 /\ ULe(the_epoch.ms, instant[c].ms) => chosen = 0
               /\ ~same => chosen = 0
               /\ same => chosen = SnowflakeId_inclement(pivot[c]) + 1

\* C18 (AgedSpec): monotonic issuance. With a non-decreasing time source, under
\* every interleaving, each successful compare-and-swap installs a raw value
\* strictly greater than the one it replaces (the now a call reads is never
\* smaller than the timestamp of the slot value it loaded); the slot never
\* decreases and never returns to an earlier value, and identifiers are issued
\* in strictly increasing raw order.
C18_MonotonicIssuance ==
    [][/\ recent' # recent =>
              /\ ULt(recent, recent')
              /\ \A i \in 1..Len(issued) : ULt(issued[i], recent')
              /\ \A i \in 1..Len(issuedFrom) : ULt(issuedFrom[i], recent')
       /\ \A i, j \in 1..Len(issued') : i < j => ULt(issued'[i], issued'[j])
       /\ \A c \in DOMAIN pc :
              pc'[c] = "cas" \/ (pc'[c] = "idle" /\ ret'[c].kind # "NoCall") =>
                  ~ULt(now'[c], SnowflakeId_raw_timestamp(pivot'[c]))]_vars

\* the last identifier of one millisecond was followed by the first of the next
C18_Witness ==
    /\ Len(issued) >= 3
    /\ SnowflakeId_inclement(issued[2]) = 4095
    /\ SnowflakeId_inclement(issued[3]) = 0
    /\ SnowflakeId_raw_timestamp(issued[3])
           = Add64(SnowflakeId_raw_timestamp(issued[2]), OneMs)
    /\ ULt(issued[2], issued[3])

\* C19 (Spec): at most one winner per observed state. With a non-decreasing time
\* source, among all generate() calls that loaded the same slot value at most one
\* returns Some, and a call returns Some only if no other call's compare-and-swap
\* succeeded between its load and its own compare-and-swap.
C19_OneWinnerPerLoad ==
    /\ \A i, j \in 1..Len(issuedFrom) : i # j => issuedFrom[i] # issuedFrom[j]
    /\ Len(issuedFrom) = Len(issued)
    /\ \A c \in DOMAIN pc : ret[c].kind = "Some" => ~stale[c]
    /\ \A c, d \in DOMAIN pc :
           c # d /\ ret[c].kind = "Some" /\ ret[d].kind = "Some" => pivot[c] # pivot[d]

\* two calls loaded the same value within one millisecond: one issued an
\* identifier, the other came back empty
C19_Witness ==
    \E c, d \in DOMAIN pc :
        /\ c # d
        /\ Ended(c) /\ Ended(d)
        /\ pivot[c] = pivot[d]
        /\ now[c] = now[d]
        /\ ret[c].kind = "Some"
        /\ ret[d].kind = "None" /\ ret[d].cause = "lost" /\ stale[d]

\* C20 (Spec): every identifier generate() returns has machine_id() equal to the
\* generator's configured machine id, inclement() <= 4095 and raw_timestamp()
\* equal to the millisecond offset from the epoch of the instant the time source
\* returned during that same call, not the timestamp of the identifier issued
\* before; the configured machine id and epoch never change after construction.
C20_IssuedFields ==
    [][/\ \A c \in DOMAIN pc :
              ret'[c].kind = "Some" =>
                  /\ SnowflakeId_machine_id(ret'[c].id) = arg_machine'
                  /\ Generator_machine_id' = arg_machine'
                  /\ SnowflakeId_inclement(ret'[c].id) <= 4095
                  /\ TimestampFits(SnowflakeId_raw_timestamp(ret'[c].id))
                  /\ Add64(the_epoch'.ms, SnowflakeId_raw_timestamp(ret'[c].id))
                         = instant'[c].ms
       /\ \A i \in 1..Len(issued') : SnowflakeId_machine_id(issued'[i]) = arg_machine'
       /\ gen = "Ok" =>
              /\ gen' = "Ok"
              /\ machine_id' = machine_id
              /\ the_epoch' = the_epoch
              /\ arg_machine' = arg_machine]_vars

\* an identifier was issued in a millisecond later than that of the identifier
\* its call had loaded, by a generator with machine id 1023
C20_Witness ==
    \E c \in DOMAIN pc :
        /\ Ended(c)
        /\ ret[c].kind = "Some"
        /\ pivot[c] # Zero64
        /\ ULt(SnowflakeId_raw_timestamp(pivot[c]), SnowflakeId_raw_timestamp(ret[c].id))
        /\ SnowflakeId_machine_id(ret[c].id) = 1023
        /\ Generator_machine_id = 1023

====
